---- MODULE Spec2Model ----
(***************************************************************************)
(* AI-For-Duty: three browser prototypes of a first-person voxel shooter.  *)
(*   "main" : src/main.js                    (15x15 levelLayout)           *)
(*   "p0"   : src/unnamed/part_000, 1-301    (13x13 levelLayout)           *)
(*   "proc" : src/unnamed/part_000, 303-510  (procedural map, no grid)     *)
(* The model covers the collision grid (solidBlocks), the per-frame        *)
(* character controller (animate), the key, mouse and timer handlers.      *)
(*                                                                         *)
(* Numbers.  JavaScript numbers are modelled in fixed point: a length      *)
(* or a velocity is an integer counting 1/Q world units (per second), an   *)
(* elapsed time is an integer counting ticks of 1/TS second.  Every        *)
(* product of the layout prototypes is exact at this resolution except the *)
(* normalised diagonal 1/sqrt(2), taken as 7071/10000.                     *)
(* The camera keeps its initial orientation (mouse look lives in the       *)
(* PointerLockControls library): moveRight(d) adds d to position.x and     *)
(* moveForward(d) subtracts d from position.z.                             *)
(***************************************************************************)
EXTENDS Integers, Sequences, FiniteSets, TLC

Q == 10 * 100
TS == 4 * 5
NORM == 100 * 100

(* Bounds of the model. *)
FrameDelta == 7
MaxFrames == 2
MaxEvents == 6
MaxTimers == 2

(* The elapsed times of a frame, in ticks: performance.now() is monotonic, *)
(* so delta >= 0; two calls within the clock's resolution give delta = 0.  *)
Deltas == {0, FrameDelta}

Protos == {"main", "p0", "proc"}
Layouts == {"main", "p0"}

VARIABLES proto, pc, solidBlocks, collidableMeshList, position, velocity,
          keys, canJump, isLocked, gameState, gun, timers, steps, last

world == <<proto, pc, solidBlocks, collidableMeshList>>
player == <<position, velocity>>
weapon == <<gameState, gun, timers>>
vars == <<proto, pc, solidBlocks, collidableMeshList, position, velocity,
          keys, canJump, isLocked, gameState, gun, timers, steps, last>>

---------------------------------------------------------------------------
(* Program constants. *)
BLOCK_SIZE == 5
PLAYER_HEIGHT_main == 10
PLAYER_HEIGHT_p0 == 9
FLOOR_Y_proc == 5
MOVEMENT_SPEED_main == 60
MOVEMENT_SPEED_p0 == 50
JUMP_main == 40
JUMP_FORCE_p0 == 35
GRAVITY_layout == 100
SPEED == 15
JUMP_FORCE_proc == 15
GRAVITY_proc == 98
MAP_SCALE == 5
mapSize == 16
MAG_SIZE == 30
TOTAL_AMMO == 90

PlayerHeight(p) == IF p = "main" THEN PLAYER_HEIGHT_main
                   ELSE IF p = "p0" THEN PLAYER_HEIGHT_p0 ELSE FLOOR_Y_proc
MovementSpeed(p) == IF p = "main" THEN MOVEMENT_SPEED_main ELSE MOVEMENT_SPEED_p0
JumpForce(p) == IF p = "main" THEN JUMP_main
                ELSE IF p = "p0" THEN JUMP_FORCE_p0 ELSE JUMP_FORCE_proc

(* Arithmetic helpers. *)
Abs(a) == IF a < 0 THEN -a ELSE a
TruncDiv(a, b) == IF a >= 0 THEN a \div b ELSE -((-a) \div b)
(* A rate of a world units per second, in 1/Q units per tick. *)
PerTick(a) == (a * Q) \div TS
(* comp / NORM * rate * delta for d ticks, in 1/Q units. *)
Scaled(comp, rate, d) == TruncDiv(comp * rate * d, (NORM * TS) \div Q)
(* Math.round(a / b) for b > 0: the nearest integer, halves towards +infinity. *)
MathRound(a, b) == (2 * a + b) \div (2 * b)
Num(b) == IF b THEN 1 ELSE 0

---------------------------------------------------------------------------
(* The collision grid of the layout prototypes. *)

levelLayout_main ==
  << <<3, 3, 3, 3, 3, 3, 3, 3, 3, 3, 3, 3, 3, 3, 3>>,
     <<3, 1, 1, 1, 1, 2, 1, 1, 1, 2, 1, 1, 1, 1, 3>>,
     <<3, 1, 4, 4, 1, 1, 1, 1, 1, 1, 1, 4, 4, 1, 3>>,
     <<3, 1, 4, 4, 1, 2, 1, 1, 1, 2, 1, 4, 4, 1, 3>>,
     <<3, 1, 1, 1, 1, 1, 1, 1, 1, 1, 1, 1, 1, 1, 3>>,
     <<3, 2, 1, 1, 1, 3, 3, 1, 3, 3, 1, 1, 1, 2, 3>>,
     <<3, 1, 1, 1, 1, 3, 0, 0, 0, 3, 1, 1, 1, 1, 3>>,
     <<3, 1, 1, 1, 1, 1, 0, 0, 0, 1, 1, 1, 1, 1, 3>>,
     <<3, 1, 1, 1, 1, 3, 0, 0, 0, 3, 1, 1, 1, 1, 3>>,
     <<3, 2, 1, 1, 1, 3, 3, 1, 3, 3, 1, 1, 1, 2, 3>>,
     <<3, 1, 1, 1, 1, 1, 1, 1, 1, 1, 1, 1, 1, 1, 3>>,
     <<3, 1, 4, 4, 1, 2, 1, 1, 1, 2, 1, 4, 4, 1, 3>>,
     <<3, 1, 4, 4, 1, 1, 1, 1, 1, 1, 1, 4, 4, 1, 3>>,
     <<3, 1, 1, 1, 1, 2, 1, 1, 1, 2, 1, 1, 1, 1, 3>>,
     <<3, 3, 3, 3, 3, 3, 3, 3, 3, 3, 3, 3, 3, 3, 3>> >>

levelLayout_p0 ==
  << <<3, 3, 3, 3, 3, 3, 3, 3, 3, 3, 3, 3, 3>>,
     <<3, 0, 0, 0, 1, 0, 0, 0, 1, 0, 0, 0, 3>>,
     <<3, 0, 2, 2, 0, 0, 0, 0, 0, 2, 2, 0, 3>>,
     <<3, 0, 2, 2, 0, 1, 0, 1, 0, 2, 2, 0, 3>>,
     <<3, 0, 0, 0, 0, 0, 0, 0, 0, 0, 0, 0, 3>>,
     <<3, 1, 0, 1, 0, 2, 0, 2, 0, 1, 0, 1, 3>>,
     <<3, 0, 0, 0, 0, 0, 0, 0, 0, 0, 0, 0, 3>>,
     <<3, 1, 0, 1, 0, 2, 0, 2, 0, 1, 0, 1, 3>>,
     <<3, 0, 0, 0, 0, 0, 0, 0, 0, 0, 0, 0, 3>>,
     <<3, 0, 2, 2, 0, 1, 0, 1, 0, 2, 2, 0, 3>>,
     <<3, 0, 2, 2, 0, 0, 0, 0, 0, 2, 2, 0, 3>>,
     <<3, 0, 0, 0, 1, 0, 0, 0, 1, 0, 0, 0, 3>>,
     <<3, 3, 3, 3, 3, 3, 3, 3, 3, 3, 3, 3, 3>> >>

levelLayout(p) == IF p = "main" THEN levelLayout_main ELSE levelLayout_p0

(* levelLayout[row][col] with the source's 0-based indices. *)
TypeAt(p, row, col) == levelLayout(p)[row + 1][col + 1]
Rows(p) == 0 .. (Len(levelLayout(p)) - 1)
Cols(p, row) == 0 .. (Len(levelLayout(p)[row + 1]) - 1)
Cells(p) == {rc \in Rows(p) \X (0 .. 20) : rc[2] \in Cols(p, rc[1])}

(* registerBlock(x, z): the key added to solidBlocks; x, z in 1/Q grid units. *)
registerBlock(x, z) == <<MathRound(x, Q), MathRound(z, Q)>>

(* checkCollision(x, z) against a set of keys; x, z in 1/Q world units. *)
checkCollision(solid, x, z) ==
  <<MathRound(x, BLOCK_SIZE * Q), MathRound(z, BLOCK_SIZE * Q)>> \in solid

(* The crate layers buildMap stacks on a cell of each type: one createVoxel *)
(* call, hence one registerBlock call, per layer.                           *)
Layers_main_noRed(type) == IF type = 2 THEN {1}
                           ELSE IF type = 3 THEN {1, 2, 3} ELSE {}

Layers_main(type) == IF type = 2 THEN {1}
                     ELSE IF type = 3 THEN {1, 2, 3}
                     ELSE IF type = 4 THEN {1, 2} ELSE {}

Layers_p0(type) == IF type = 1 THEN {1}
                   ELSE IF type = 2 THEN {1, 2}
                   ELSE IF type = 3 THEN {1, 2, 3} ELSE {}

Layers(p, type) == IF p = "main" THEN Layers_main(type) ELSE Layers_p0(type)

(* The grid coordinates (1/Q units) buildMap passes to createVoxel.          *)
(* main.js: x = col * BLOCK_SIZE - offset, passed as x / BLOCK_SIZE, with    *)
(* offset = levelLayout.length * BLOCK_SIZE / 2 for both axes.               *)
GridCoord_main(i) ==
  (i * BLOCK_SIZE * Q - (Len(levelLayout_main) * BLOCK_SIZE * Q) \div 2) \div BLOCK_SIZE

(* part_000: x = col - floor(levelLayout[0].length / 2), z likewise by rows. *)
GridX_p0(col) == (col - (Len(levelLayout_p0[1]) \div 2)) * Q
GridZ_p0(row) == (row - (Len(levelLayout_p0) \div 2)) * Q

GridX(p, col) == IF p = "main" THEN GridCoord_main(col) ELSE GridX_p0(col)
GridZ(p, row) == IF p = "main" THEN GridCoord_main(row) ELSE GridZ_p0(row)

(* The createVoxel calls of buildMap that register a block: <<x, layer, z>>. *)
createVoxelCalls(p) ==
  UNION {{<<GridX(p, rc[2]), y, GridZ(p, rc[1])>> :
            y \in Layers(p, TypeAt(p, rc[1], rc[2]))} : rc \in Cells(p)}

(* The mesh position createVoxel gives a crate (1/Q world units, x and z). *)
MeshXZ(call) == <<call[1] * BLOCK_SIZE, call[3] * BLOCK_SIZE>>

(* buildMap: solidBlocks after every createVoxel call has registered its key. *)
buildMap(p) == {registerBlock(c[1], c[3]) : c \in createVoxelCalls(p)}

---------------------------------------------------------------------------
(* The procedural map of the third prototype: every addBlock call pushes   *)
(* its mesh on collidableMeshList.  A mesh is <<x, y, z, type>> in grid    *)
(* units, as passed to addBlock; the list is kept as the set of            *)
(* <<call site, mesh>> so that two pushes of equal meshes stay two.        *)
addBlock(x, y, z, type) == <<x, y, z, type>>

GenRange == (0 - mapSize) .. mapSize

IsBoundary(x, z) == x = -mapSize \/ x = mapSize \/ z = -mapSize \/ z = mapSize

(* JavaScript's % keeps the sign of the dividend; x % 4 === 0 is        *)
(* divisibility either way.                                             *)
IsCrateSite(x, z) ==
  /\ ~(Abs(x) < 2 /\ Abs(z) < 2)
  /\ x % 4 = 0 /\ z % 4 = 0 /\ x # 0 /\ z # 0

generateShipment ==
  UNION {   {<<"floor", addBlock(x, 0, z, "floor")>>}
       \cup (IF IsBoundary(x, z)
             THEN {<<"wall", addBlock(x, 1, z, "crate")>>,
                   <<"wall", addBlock(x, 2, z, "crate")>>}
             ELSE {})
       \cup (IF IsCrateSite(x, z)
             THEN {<<"site", addBlock(x, 1, z, "red_crate")>>,
                   <<"site", addBlock(x + 1, 1, z, "crate")>>}
             ELSE {})
       : <<x, z>> \in GenRange \X GenRange}

---------------------------------------------------------------------------
(* The character controller. *)

(* direction after direction.normalize(), each component in 1/NORM. *)
NormalizedDir(dx, dz) ==
  IF dx # 0 /\ dz # 0 THEN <<dx * 7071, dz * 7071>> ELSE <<dx * NORM, dz * NORM>>

(* velocity.y -= 100.0 * delta *)
gravityStep(vy, d) == vy - PerTick(GRAVITY_layout) * d

(* <<moveX, moveZ>>: the desired move, from the held keys. *)
desiredMove(p, k, d) ==
  LET dir == NormalizedDir(Num(k.d) - Num(k.a), Num(k.w) - Num(k.s))
  IN  <<Scaled(dir[1], MovementSpeed(p), d), Scaled(dir[2], MovementSpeed(p), d)>>

(* The collision step: moveRight(moveX), undone if the cell reached is   *)
(* solid, then moveForward(moveZ), undone if the cell reached is solid.  *)
(* Both tests read the camera's current position (in src/main.js         *)
(* currentPos is that very Vector3, not a copy).                         *)
resolveMove_noUndoX(solid, pos, moveX, moveZ) ==
  LET x1    == pos.x + moveX
      undoX == checkCollision(solid, x1, pos.z)
      z1    == pos.z - moveZ
      undoZ == checkCollision(solid, x1, z1)
  IN  [x |-> x1, z |-> IF undoZ THEN z1 + moveZ ELSE z1,
       undoX |-> undoX, undoZ |-> undoZ]

resolveMove_zFirst(solid, pos, moveX, moveZ) ==
  LET z1    == pos.z - moveZ
      undoZ == checkCollision(solid, pos.x, z1)
      z2    == IF undoZ THEN z1 + moveZ ELSE z1
      x1    == pos.x + moveX
      undoX == checkCollision(solid, x1, z2)
      x2    == IF undoX THEN x1 - moveX ELSE x1
  IN  [x |-> x2, z |-> z2, undoX |-> undoX, undoZ |-> undoZ]

resolveMove(solid, pos, moveX, moveZ) ==
  LET x1    == pos.x + moveX
      undoX == checkCollision(solid, x1, pos.z)
      x2    == IF undoX THEN x1 - moveX ELSE x1
      z1    == pos.z - moveZ
      undoZ == checkCollision(solid, x2, z1)
      z2    == IF undoZ THEN z1 + moveZ ELSE z1
  IN  [x |-> x2, z |-> z2, undoX |-> undoX, undoZ |-> undoZ]

(* The floor step: position.y += velocity.y * delta, then the clamp and *)
(* the jump.  vy1 is velocity.y after gravityStep.                      *)
floorCollision_le(p, y, vy1, d, space) ==
  LET y1     == y + TruncDiv(vy1 * d, TS)
      landed == y1 <= PlayerHeight(p) * Q
      jumped == landed /\ space
  IN  [y  |-> IF landed THEN PlayerHeight(p) * Q ELSE y1,
       vy |-> IF jumped THEN JumpForce(p) * Q ELSE IF landed THEN 0 ELSE vy1,
       landed |-> landed, jumped |-> jumped]

floorCollision_keepVelocity(p, y, vy1, d, space) ==
  LET y1     == y + TruncDiv(vy1 * d, TS)
      landed == y1 < PlayerHeight(p) * Q
      jumped == landed /\ space
  IN  [y  |-> IF landed THEN PlayerHeight(p) * Q ELSE y1,
       vy |-> IF jumped THEN JumpForce(p) * Q ELSE vy1,
       landed |-> landed, jumped |-> jumped]

floorCollision_noClamp(p, y, vy1, d, space) ==
  LET y1     == y + TruncDiv(vy1 * d, TS)
      landed == y1 < PlayerHeight(p) * Q
      jumped == landed /\ space
  IN  [y  |-> y1,
       vy |-> IF jumped THEN JumpForce(p) * Q ELSE IF landed THEN 0 ELSE vy1,
       landed |-> landed, jumped |-> jumped]

floorCollision(p, y, vy1, d, space) ==
  LET y1     == y + TruncDiv(vy1 * d, TS)
      landed == y1 < PlayerHeight(p) * Q
      jumped == landed /\ space
  IN  [y  |-> IF landed THEN PlayerHeight(p) * Q ELSE y1,
       vy |-> IF jumped THEN JumpForce(p) * Q ELSE IF landed THEN 0 ELSE vy1,
       landed |-> landed, jumped |-> jumped]

(* One frame of animate in the layout prototypes, for an elapsed time of  *)
(* d ticks.  Returns the new position and velocity and the branches taken. *)
animateLayout_wallKillsJump(p, pos, vel, k, solid, locked, d) ==
  IF ~locked
  THEN [position |-> pos, velocity |-> vel,
        moveX |-> 0, moveZ |-> 0, undoX |-> FALSE, undoZ |-> FALSE,
        landed |-> FALSE, jumped |-> FALSE]
  ELSE
    LET mv == desiredMove(p, k, d)
        h  == resolveMove(solid, pos, mv[1], mv[2])
        v  == floorCollision(p, pos.y, gravityStep(vel.y, d), d, k.space)
    IN  [position |-> [x |-> h.x, y |-> v.y, z |-> h.z],
         velocity |-> [vel EXCEPT !.y = IF h.undoX \/ h.undoZ THEN 0 ELSE v.vy],
         moveX |-> mv[1], moveZ |-> mv[2], undoX |-> h.undoX, undoZ |-> h.undoZ,
         landed |-> v.landed, jumped |-> v.jumped]

animateLayout(p, pos, vel, k, solid, locked, d) ==
  IF ~locked
  THEN [position |-> pos, velocity |-> vel,
        moveX |-> 0, moveZ |-> 0, undoX |-> FALSE, undoZ |-> FALSE,
        landed |-> FALSE, jumped |-> FALSE]
  ELSE
    LET mv == desiredMove(p, k, d)
        h  == resolveMove(solid, pos, mv[1], mv[2])
        v  == floorCollision(p, pos.y, gravityStep(vel.y, d), d, k.space)
    IN  [position |-> [x |-> h.x, y |-> v.y, z |-> h.z],
         velocity |-> [vel EXCEPT !.y = v.vy],
         moveX |-> mv[1], moveZ |-> mv[2], undoX |-> h.undoX, undoZ |-> h.undoZ,
         landed |-> v.landed, jumped |-> v.jumped]

(* One frame of animate in the procedural prototype. *)
animateProc(pos, vel, k, cj, locked, d) ==
  IF ~locked
  THEN [position |-> pos, velocity |-> vel, canJump |-> cj, landed |-> FALSE]
  ELSE
    LET vx1 == vel.x - TruncDiv(vel.x * 10 * d, TS)
        vz1 == vel.z - TruncDiv(vel.z * 10 * d, TS)
        vy1 == vel.y - PerTick(GRAVITY_proc) * d
        dir == NormalizedDir(Num(k.d) - Num(k.a), Num(k.w) - Num(k.s))
        vz2 == IF k.w \/ k.s
               THEN vz1 - Scaled(dir[2], SPEED * 100, d)
               ELSE vz1
        vx2 == IF k.a \/ k.d
               THEN vx1 - Scaled(dir[1], SPEED * 100, d)
               ELSE vx1
        x1  == pos.x + TruncDiv((0 - vx2) * d, TS)
        z1  == pos.z - TruncDiv((0 - vz2) * d, TS)
        y1  == pos.y + TruncDiv(vy1 * d, TS)
        landed == y1 < FLOOR_Y_proc * Q
    IN  [position |-> [x |-> x1, y |-> IF landed THEN FLOOR_Y_proc * Q ELSE y1, z |-> z1],
         velocity |-> [x |-> vx2, y |-> IF landed THEN 0 ELSE vy1, z |-> vz2],
         canJump |-> cj \/ landed, landed |-> landed]

---------------------------------------------------------------------------
(* State. *)

NoKeys == [w |-> FALSE, a |-> FALSE, s |-> FALSE, d |-> FALSE, space |-> FALSE]
Origin == [x |-> 0, y |-> 0, z |-> 0]
TimerKinds == {"recoil", "spark", "untilt", "reload", "flash"}
NoTimers == [t \in TimerKinds |-> 0]
Pending == timers["recoil"] + timers["spark"] + timers["untilt"]
           + timers["reload"] + timers["flash"]

(* The handler that ran last and, for a frame, its locals and branches. *)
Ran(op) == [op |-> op, delta |-> 0, moveX |-> 0, moveZ |-> 0,
            undoX |-> FALSE, undoZ |-> FALSE, landed |-> FALSE, jumped |-> FALSE]

Init ==
  /\ proto \in Protos
  /\ pc = "load"
  /\ solidBlocks = {}
  /\ collidableMeshList = {}
  /\ position = Origin
  /\ velocity = Origin
  /\ keys = NoKeys
  /\ canJump = FALSE
  /\ isLocked = FALSE
  /\ gameState = [ammo |-> MAG_SIZE, totalAmmo |-> TOTAL_AMMO]
  /\ gun = [kick |-> 0, tilt |-> FALSE, sparks |-> 0, flash |-> FALSE]
  /\ timers = NoTimers
  /\ steps = 0
  /\ last = Ran("init")

(* The script's top level: the map is built and the player is placed. *)
spawn(p) == [x |-> 0, y |-> PlayerHeight(p) * Q, z |-> 0]

Start ==
  /\ pc = "load"
  /\ pc' = "run"
  /\ IF proto \in Layouts
     THEN /\ solidBlocks' = buildMap(proto)
          /\ position' = spawn(proto)
          /\ UNCHANGED collidableMeshList
     ELSE /\ collidableMeshList' = generateShipment
          /\ UNCHANGED <<solidBlocks, position>>
  /\ last' = Ran("start")
  /\ UNCHANGED <<proto, velocity, keys, canJump, isLocked, weapon>>

(* PointerLockControls: a click on the instructions locks, Escape unlocks. *)
Lock ==
  /\ pc = "run" /\ ~isLocked
  /\ isLocked' = TRUE
  /\ last' = Ran("lock")
  /\ UNCHANGED <<world, player, keys, canJump, weapon>>

Unlock ==
  /\ pc = "run" /\ isLocked
  /\ isLocked' = FALSE
  /\ last' = Ran("unlock")
  /\ UNCHANGED <<world, player, keys, canJump, weapon>>

MoveCodes == {"KeyW", "KeyA", "KeyS", "KeyD", "Space"}
ArrowCodes == {"ArrowUp", "ArrowLeft", "ArrowDown", "ArrowRight"}
Codes == MoveCodes \cup ArrowCodes \cup {"KeyR"}

(* The switch of the key handlers of the layout prototypes. *)
setKey(k, code, val) ==
  IF code = "KeyW" THEN [k EXCEPT !.w = val]
  ELSE IF code = "KeyA" THEN [k EXCEPT !.a = val]
  ELSE IF code = "KeyS" THEN [k EXCEPT !.s = val]
  ELSE IF code = "KeyD" THEN [k EXCEPT !.d = val]
  ELSE IF code = "Space" THEN [k EXCEPT !.space = val]
  ELSE k

(* The switch of onKeyDown / onKeyUp of the procedural prototype        *)
(* (moveForward, moveLeft, moveBackward, moveRight are w, a, s, d).     *)
setMove(k, code, val) ==
  IF code \in {"ArrowUp", "KeyW"} THEN [k EXCEPT !.w = val]
  ELSE IF code \in {"ArrowLeft", "KeyA"} THEN [k EXCEPT !.a = val]
  ELSE IF code \in {"ArrowDown", "KeyS"} THEN [k EXCEPT !.s = val]
  ELSE IF code \in {"ArrowRight", "KeyD"} THEN [k EXCEPT !.d = val]
  ELSE k

(* reload() of src/main.js: applied at once; the timer only undoes the dip. *)
reload_main ==
  IF gameState.totalAmmo > 0
  THEN /\ Pending < MaxTimers
       /\ gameState' = [ammo |-> MAG_SIZE, totalAmmo |-> gameState.totalAmmo - MAG_SIZE]
       /\ gun' = [gun EXCEPT !.tilt = TRUE]
       /\ timers' = [timers EXCEPT !["untilt"] = @ + 1]
  ELSE UNCHANGED weapon

(* reload() of part_000: the timer callback applies the reload. *)
reload_p0 ==
  IF gameState.totalAmmo > 0
  THEN /\ Pending < MaxTimers
       /\ gun' = [gun EXCEPT !.tilt = TRUE]
       /\ timers' = [timers EXCEPT !["reload"] = @ + 1]
       /\ UNCHANGED gameState
  ELSE UNCHANGED weapon

KeyDownLayout(code) ==
  /\ pc = "run" /\ proto \in Layouts
  /\ keys' = setKey(keys, code, TRUE)
  /\ IF code = "KeyR"
     THEN IF proto = "main" THEN reload_main ELSE reload_p0
     ELSE UNCHANGED weapon
  /\ last' = Ran("keydown")
  /\ UNCHANGED <<world, player, canJump, isLocked>>

KeyDownProc_noClear(code) ==
  /\ pc = "run" /\ proto = "proc"
  /\ keys' = setMove(keys, code, TRUE)
  /\ IF code = "Space"
     THEN /\ velocity' = IF canJump
                          THEN [velocity EXCEPT !.y = @ + JumpForce("proc") * Q]
                          ELSE velocity
          /\ UNCHANGED canJump
     ELSE UNCHANGED <<velocity, canJump>>
  /\ last' = Ran("keydown")
  /\ UNCHANGED <<world, position, isLocked, weapon>>

KeyDownProc(code) ==
  /\ pc = "run" /\ proto = "proc"
  /\ keys' = setMove(keys, code, TRUE)
  /\ IF code = "Space"
     THEN /\ velocity' = IF canJump
                          THEN [velocity EXCEPT !.y = @ + JumpForce("proc") * Q]
                          ELSE velocity
          /\ canJump' = FALSE
     ELSE UNCHANGED <<velocity, canJump>>
  /\ last' = Ran("keydown")
  /\ UNCHANGED <<world, position, isLocked, weapon>>

KeyUp(code) ==
  /\ pc = "run"
  /\ keys' = IF proto = "proc" THEN setMove(keys, code, FALSE)
                               ELSE setKey(keys, code, FALSE)
  /\ last' = Ran("keyup")
  /\ UNCHANGED <<world, player, canJump, isLocked, weapon>>

(* mousedown of the layout prototypes; hit: the ray meets a scene object. *)
MouseDown_breaksBlock(hit) ==
  /\ pc = "run" /\ proto \in Layouts
  /\ IF ~isLocked \/ gameState.ammo <= 0
     THEN UNCHANGED <<weapon, solidBlocks>>
     ELSE /\ Pending + 1 + Num(hit) <= MaxTimers
          /\ gameState' = [gameState EXCEPT !.ammo = @ - 1]
          /\ gun' = [gun EXCEPT !.kick = @ + 1, !.sparks = @ + Num(hit)]
          /\ timers' = [timers EXCEPT !["recoil"] = @ + 1, !["spark"] = @ + Num(hit)]
          /\ solidBlocks' =
               IF hit
               THEN {c \in solidBlocks :
                       ~(c[1] = MathRound(position.x, BLOCK_SIZE * Q) /\ c[2] < 0)}
               ELSE solidBlocks
  /\ last' = Ran("mousedown")
  /\ UNCHANGED <<proto, pc, collidableMeshList, player, keys, canJump, isLocked>>

MouseDown_noAmmoTest(hit) ==
  /\ pc = "run" /\ proto \in Layouts
  /\ IF ~isLocked
     THEN UNCHANGED weapon
     ELSE /\ Pending + 1 + Num(hit) <= MaxTimers
          /\ gameState' = [gameState EXCEPT !.ammo = @ - 1]
          /\ gun' = [gun EXCEPT !.kick = @ + 1, !.sparks = @ + Num(hit)]
          /\ timers' = [timers EXCEPT !["recoil"] = @ + 1, !["spark"] = @ + Num(hit)]
  /\ last' = Ran("mousedown")
  /\ UNCHANGED <<world, player, keys, canJump, isLocked>>

MouseDown(hit) ==
  /\ pc = "run" /\ proto \in Layouts
  /\ IF ~isLocked \/ gameState.ammo <= 0
     THEN UNCHANGED weapon
     ELSE /\ Pending + 1 + Num(hit) <= MaxTimers
          /\ gameState' = [gameState EXCEPT !.ammo = @ - 1]
          /\ gun' = [gun EXCEPT !.kick = @ + 1, !.sparks = @ + Num(hit)]
          /\ timers' = [timers EXCEPT !["recoil"] = @ + 1, !["spark"] = @ + Num(hit)]
  /\ last' = Ran("mousedown")
  /\ UNCHANGED <<world, player, keys, canJump, isLocked>>

(* click of the procedural prototype; hit: the ray meets a lit material. *)
Click(hit) ==
  /\ pc = "run" /\ proto = "proc"
  /\ IF ~isLocked
     THEN UNCHANGED weapon
     ELSE /\ Pending + 1 + Num(hit) <= MaxTimers
          /\ gun' = [gun EXCEPT !.kick = @ + 1, !.flash = @ \/ hit]
          /\ timers' = [timers EXCEPT !["recoil"] = @ + 1, !["flash"] = @ + Num(hit)]
          /\ UNCHANGED gameState
  /\ last' = Ran("click")
  /\ UNCHANGED <<world, player, keys, canJump, isLocked>>

(* A pending setTimeout callback runs. *)
Timer(kind) ==
  /\ pc = "run" /\ timers[kind] > 0
  /\ timers' = [timers EXCEPT ![kind] = @ - 1]
  /\ gun' = IF kind = "recoil" THEN [gun EXCEPT !.kick = @ - 1]
            ELSE IF kind = "spark" THEN [gun EXCEPT !.sparks = @ - 1]
            ELSE IF kind = "flash" THEN [gun EXCEPT !.flash = FALSE]
            ELSE [gun EXCEPT !.tilt = FALSE]
  /\ gameState' = IF kind = "reload"
                  THEN [ammo |-> MAG_SIZE, totalAmmo |-> gameState.totalAmmo - MAG_SIZE]
                  ELSE gameState
  /\ last' = Ran("timer")
  /\ UNCHANGED <<world, player, keys, canJump, isLocked>>

(* A frame of animate, d ticks after the previous one. *)
AnimateLayout(d) ==
  /\ pc = "run" /\ proto \in Layouts
  /\ LET r == animateLayout(proto, position, velocity, keys, solidBlocks, isLocked, d)
     IN  /\ position' = r.position
         /\ velocity' = r.velocity
         /\ last' = [op |-> "animate", delta |-> d, moveX |-> r.moveX, moveZ |-> r.moveZ,
                     undoX |-> r.undoX, undoZ |-> r.undoZ,
                     landed |-> r.landed, jumped |-> r.jumped]
  /\ UNCHANGED <<world, keys, canJump, isLocked, weapon>>

AnimateProc(d) ==
  /\ pc = "run" /\ proto = "proc"
  /\ LET r == animateProc(position, velocity, keys, canJump, isLocked, d)
     IN  /\ position' = r.position
         /\ velocity' = r.velocity
         /\ canJump' = r.canJump
         /\ last' = [Ran("animate") EXCEPT !.delta = d, !.landed = r.landed]
  /\ UNCHANGED <<world, keys, isLocked, weapon>>

---------------------------------------------------------------------------
(* Specifications. *)

(* The whole program, for MaxEvents handler runs. *)
Tick == steps < MaxEvents /\ steps' = steps + 1

EvStart == Start /\ Tick
EvLock == Lock /\ Tick
EvUnlock == Unlock /\ Tick
EvKeyDownLayout == \E c \in Codes : KeyDownLayout(c) /\ Tick
EvKeyDownProc == \E c \in Codes : KeyDownProc(c) /\ Tick
EvKeyUp == \E c \in Codes : KeyUp(c) /\ Tick
EvMouseDown == \E h \in BOOLEAN : MouseDown(h) /\ Tick
EvClick == \E h \in BOOLEAN : Click(h) /\ Tick
EvTimer == \E t \in TimerKinds : Timer(t) /\ Tick
EvAnimateLayout == \E d \in Deltas : AnimateLayout(d) /\ Tick
EvAnimateProc == \E d \in Deltas : AnimateProc(d) /\ Tick

Next ==
  \/ EvStart \/ EvLock \/ EvUnlock
  \/ EvKeyDownLayout \/ EvKeyDownProc \/ EvKeyUp
  \/ EvMouseDown \/ EvClick \/ EvTimer
  \/ EvAnimateLayout \/ EvAnimateProc

Spec == Init /\ [][Next]_vars

(* The character controller of the layout prototypes alone: key events *)
(* are free, frames are counted.                                        *)
FrameTick == steps < MaxFrames /\ steps' = steps + 1

InitMove == Init /\ proto \in Layouts

MvStart == Start /\ UNCHANGED steps
MvLock == Lock /\ UNCHANGED steps
MvUnlock == Unlock /\ UNCHANGED steps
MvKeyDown == \E c \in MoveCodes : KeyDownLayout(c) /\ UNCHANGED steps
MvKeyUp == \E c \in MoveCodes : KeyUp(c) /\ UNCHANGED steps
MvAnimate == \E d \in Deltas : AnimateLayout(d) /\ FrameTick

NextMove ==
  \/ MvStart \/ MvLock \/ MvUnlock
  \/ MvKeyDown \/ MvKeyUp
  \/ MvAnimate

SpecMove == InitMove /\ [][NextMove]_vars

---------------------------------------------------------------------------
(* Vocabulary of the properties. *)

(* The cell a world coordinate falls in: Math.round(w / BLOCK_SIZE). *)
CellAt(x, z) == <<MathRound(x, BLOCK_SIZE * Q), MathRound(z, BLOCK_SIZE * Q)>>
CellSolid(x, z) == CellAt(x, z) \in solidBlocks
PlayerCell == CellAt(position.x, position.z)

(* The obstacle codes of each layout. *)
ObstacleCodes(p) == IF p = "main" THEN {2, 3, 4} ELSE {1, 2, 3}
IsObstacle(p, rc) == TypeAt(p, rc[1], rc[2]) \in ObstacleCodes(p)

(* The world position of the column built for layout position rc = <<row, col>>, *)
(* and its grid cell.                                                            *)
ColumnXZ(p, rc) == <<GridX(p, rc[2]) * BLOCK_SIZE, GridZ(p, rc[1]) * BLOCK_SIZE>>
LayoutCell(p, rc) == CellAt(ColumnXZ(p, rc)[1], ColumnXZ(p, rc)[2])

(* The layout positions on the bordering ring, and the cells inside it. *)
OnRing(p, rc) ==
  \/ rc[1] = 0 \/ rc[1] = Len(levelLayout(p)) - 1
  \/ rc[2] = 0 \/ rc[2] = Len(levelLayout(p)[rc[1] + 1]) - 1
InteriorCells(p) == {LayoutCell(p, rc) : rc \in {c \in Cells(p) : ~OnRing(p, c)}}
InteriorCells_main == InteriorCells("main")
InteriorCells_p0 == InteriorCells("p0")

Running == pc = "run" /\ proto \in Layouts
LockedFrame == last'.op = "animate" /\ isLocked /\ proto \in Layouts

---------------------------------------------------------------------------
(* C1: in the layout prototypes the player spawns at (0, PLAYER_HEIGHT, 0) *)
(* in a cell that is not solid, and after every frame (any delta, any held *)
(* keys) the player's (x, z) rounds to a cell that is not in solidBlocks.  *)
C1_PlayerCellNeverSolid ==
  Running =>
    /\ PlayerCell \notin solidBlocks
    /\ last.op = "start" =>
          position = [x |-> 0, y |-> PlayerHeight(proto) * Q, z |-> 0]

(* A frame whose move was blocked by a solid cell has run. *)
C1_Witness ==
  /\ Running /\ last.op = "animate"
  /\ last.undoX \/ last.undoZ
  /\ PlayerCell \notin solidBlocks

(* C2: the outer wall is impassable: from spawn, for any frames and any *)
(* deltas and keys, the player's cell stays strictly inside the ring of *)
(* type-3 wall cells bordering levelLayout.                             *)
C2_StaysInsideRing ==
  Running =>
    PlayerCell \in (IF proto = "main" THEN InteriorCells_main ELSE InteriorCells_p0)

(* C3: axis-separated resolution: the X displacement is applied, tested   *)
(* and reverted alone; then the Z displacement is applied from the        *)
(* X-resolved position, tested and reverted alone.  A diagonal move whose *)
(* X cell is solid and whose Z cell is open keeps Z and drops X.          *)
C3_AxisSeparated ==
  [][LockedFrame =>
      LET mx == last'.moveX
          mz == last'.moveZ
          xBlocked == CellSolid(position.x + mx, position.z)
          xr == IF xBlocked THEN position.x ELSE position.x + mx
          zBlocked == CellSolid(xr, position.z - mz)
      IN  /\ position'.x = xr
          /\ position'.z = IF zBlocked THEN position.z ELSE position.z - mz
          /\ (mx # 0 /\ mz # 0 /\ xBlocked /\ ~CellSolid(position.x, position.z - mz))
               => (position'.x = position.x /\ position'.z = position.z - mz)]_vars

(* A diagonal frame has slid: its X move was undone, its Z move kept. *)
C3_Witness ==
  /\ Running /\ last.op = "animate"
  /\ last.moveX # 0 /\ last.moveZ # 0
  /\ last.undoX /\ ~last.undoZ

(* C4: after buildMap, solidBlocks holds the cell of a layout position iff *)
(* the position holds an obstacle code, with one entry per obstacle column *)
(* however many layers are stacked; distinct positions have distinct       *)
(* cells; checkCollision is false on floor and void cells and outside the  *)
(* layout.                                                                 *)
C4_GridMatchesLayout ==
  Running =>
    /\ \A rc \in Cells(proto) :
          checkCollision(solidBlocks, ColumnXZ(proto, rc)[1], ColumnXZ(proto, rc)[2])
            <=> IsObstacle(proto, rc)
    /\ Cardinality(solidBlocks) = Cardinality({rc \in Cells(proto) : IsObstacle(proto, rc)})
    /\ Cardinality({LayoutCell(proto, rc) : rc \in Cells(proto)}) = Cardinality(Cells(proto))
    /\ solidBlocks \subseteq {LayoutCell(proto, rc) : rc \in Cells(proto)}

(* The grid of src/main.js is built: a three-layer wall, a two-layer *)
(* container and a single crate are registered, a floor cell is not. *)
C4_Witness ==
  /\ Running /\ proto = "main"
  /\ <<-7, -7>> \in solidBlocks /\ <<-5, -5>> \in solidBlocks
  /\ <<-2, -6>> \in solidBlocks /\ <<0, 0>> \notin solidBlocks
  /\ Cardinality(createVoxelCalls("main")) > Cardinality(solidBlocks)

---------------------------------------------------------------------------
(* Vertical motion. *)

Gravity(p) == IF p = "proc" THEN GRAVITY_proc ELSE GRAVITY_layout
EyeHeight == PlayerHeight(proto) * Q
JumpVelocity == JumpForce(proto) * Q
(* position.y after the frame's vertical integration, before any clamp. *)
IntegratedY(d) ==
  position.y + TruncDiv((velocity.y - PerTick(Gravity(proto)) * d) * d, TS)
AnyLockedFrame == last'.op = "animate" /\ isLocked /\ pc = "run"

(* C5 as stated: whenever the vertical integration of a frame drives    *)
(* position.y below the eye height, the frame ends with position.y at   *)
(* the eye height exactly and velocity.y = 0.                           *)
C5_ClampZeroesVelocity ==
  [][(AnyLockedFrame /\ IntegratedY(last'.delta) < EyeHeight)
       => (position'.y = EyeHeight /\ velocity'.y = 0)]_vars

(* C5 amended: whenever the vertical integration of a frame drives      *)
(* position.y below the eye height, the frame ends with position.y at   *)
(* the eye height exactly, and with velocity.y = 0 unless Space is held *)
(* in a layout prototype, where velocity.y is the jump force.           *)
C5_GroundClamp ==
  [][(AnyLockedFrame /\ IntegratedY(last'.delta) < EyeHeight)
       => /\ position'.y = EyeHeight
          /\ velocity'.y = IF proto \in Layouts /\ keys.space THEN JumpVelocity ELSE 0]_vars

(* A frame of positive delta has clamped the player to the floor at rest. *)
C5_Witness ==
  /\ pc = "run" /\ last.op = "animate" /\ last.landed /\ last.delta > 0
  /\ ~last.jumped
  /\ position.y = EyeHeight /\ velocity.y = 0

(* What a locked frame of the layout prototypes leaves in velocity.y when *)
(* it sets no jump velocity: gravity, zeroed by the clamp.                *)
NoJumpVelocity(d) ==
  IF IntegratedY(d) < EyeHeight THEN 0 ELSE velocity.y - PerTick(GRAVITY_layout) * d

(* C6 as stated, grounded meaning position.y <= eye height after the     *)
(* vertical integration: a grounded frame with Space held ends with      *)
(* velocity.y = jump force; any other frame sets no jump velocity, and   *)
(* integration starts by decreasing velocity.y by 100 * delta.           *)
C6_JumpWhenAtOrBelow ==
  [][LockedFrame =>
      LET d == last'.delta
          grounded == IntegratedY(d) <= EyeHeight
      IN  IF grounded /\ keys.space
          THEN velocity'.y = JumpVelocity
          ELSE velocity'.y = NoJumpVelocity(d)]_vars

(* C6 amended, grounded meaning position.y < eye height after the        *)
(* vertical integration (the frame clamps): a grounded frame with Space  *)
(* held ends with velocity.y = jump force; any other locked frame ends   *)
(* with velocity.y decreased by 100 * delta, or 0 if it clamps; a frame  *)
(* without pointer lock leaves velocity alone.                           *)
C6_Jump ==
  [][(last'.op = "animate" /\ proto \in Layouts) =>
      LET d == last'.delta
          grounded == IntegratedY(d) < EyeHeight
      IN  IF ~isLocked THEN velocity' = velocity
          ELSE IF grounded /\ keys.space
          THEN velocity'.y = JumpVelocity
          ELSE velocity'.y = NoJumpVelocity(d)]_vars

(* The frame after a jump has run: velocity.y is the jump force less gravity. *)
C6_Witness ==
  /\ Running /\ last.op = "animate" /\ last.delta > 0 /\ ~last.landed
  /\ velocity.y = JumpVelocity - PerTick(GRAVITY_layout) * last.delta
  /\ position.y > EyeHeight

(* C7: a frame whose delta is zero or negative leaves position and       *)
(* velocity as they were.                                                *)
C7_DegenerateDeltaNoEffect ==
  [][(last'.op = "animate" /\ last'.delta <= 0)
       => (position' = position /\ velocity' = velocity)]_vars

(* C8: once buildMap has returned, no operation adds a key to or removes *)
(* a key from solidBlocks.                                               *)
C8_GridReadOnly == [][pc = "run" => solidBlocks' = solidBlocks]_vars

(* A shot has been fired and one of its timers has run, the grid intact. *)
C8_Witness ==
  /\ Running /\ last.op = "timer" /\ gameState.ammo < MAG_SIZE
  /\ solidBlocks = buildMap(proto)

(* Alternative inputs of a frame. *)
AltHeights == {EyeHeight, EyeHeight + 3 * Q, EyeHeight + 20 * Q}
AltVelocities == {0, 0 - 30 * Q, JumpVelocity}
AltXZ == {<<0, 0>>, <<6 * BLOCK_SIZE * Q, 0>>, <<position.z, position.x>>}
AltKeys == {[keys EXCEPT ![c] = ~@] : c \in {"w", "a", "s", "d"}}
             \cup {[NoKeys EXCEPT !.space = keys.space]}
AllCells == (-10 .. 10) \X (-10 .. 10)
AltSolids == {{}, solidBlocks \cup {<<1, 0>>, <<0, -1>>}, AllCells}

(* C9: a frame is decoupled: changing only position.y and velocity.y     *)
(* leaves the resulting (x, z) the same; changing only (x, z), the held  *)
(* W/A/S/D keys or solidBlocks leaves the resulting position.y and       *)
(* velocity.y the same.                                                  *)
C9_Decoupled ==
  Running =>
    \A d \in Deltas :
      LET r == animateLayout(proto, position, velocity, keys, solidBlocks, isLocked, d)
      IN  /\ \A y2 \in AltHeights, vy2 \in AltVelocities :
                LET r2 == animateLayout(proto, [position EXCEPT !.y = y2],
                                        [velocity EXCEPT !.y = vy2],
                                        keys, solidBlocks, isLocked, d)
                IN  r2.position.x = r.position.x /\ r2.position.z = r.position.z
          /\ \A xz \in AltXZ, k2 \in AltKeys, s2 \in AltSolids :
                LET r3 == animateLayout(proto, [position EXCEPT !.x = xz[1], !.z = xz[2]],
                                        velocity, k2, s2, isLocked, d)
                IN  r3.position.y = r.position.y /\ r3.velocity.y = r.velocity.y

(* One frame has both undone a move against a solid cell and jumped. *)
C9_Witness ==
  /\ Running /\ last.op = "animate"
  /\ last.undoX \/ last.undoZ
  /\ last.jumped /\ velocity.y = JumpVelocity

---------------------------------------------------------------------------
(* Falling: the pointer is locked, no key is held, the player starts above *)
(* the floor with some vertical velocity, and frames keep coming.          *)
FallSteps == 4
FallHeights(p) == {PlayerHeight(p) * Q + i * 2 * BLOCK_SIZE * Q : i \in 1 .. FallSteps}
FallVelocities == {(j - 2) * 10 * Q : j \in 0 .. FallSteps}

InitFall ==
  /\ proto \in Layouts
  /\ pc = "run"
  /\ solidBlocks = buildMap(proto)
  /\ collidableMeshList = {}
  /\ \E y \in FallHeights(proto) : position = [x |-> 0, y |-> y, z |-> 0]
  /\ \E vy \in FallVelocities : velocity = [x |-> 0, y |-> vy, z |-> 0]
  /\ keys = NoKeys
  /\ canJump = FALSE
  /\ isLocked = TRUE
  /\ gameState = [ammo |-> MAG_SIZE, totalAmmo |-> TOTAL_AMMO]
  /\ gun = [kick |-> 0, tilt |-> FALSE, sparks |-> 0, flash |-> FALSE]
  /\ timers = NoTimers
  /\ steps = 0
  /\ last = Ran("lock")

FallFrameZero == AnimateLayout(0) /\ UNCHANGED steps
FallFrame == \E d \in Deltas \ {0} : AnimateLayout(d) /\ UNCHANGED steps

NextFall == FallFrameZero \/ FallFrame

(* requestAnimationFrame reschedules animate in every frame. *)
SpecFall == InitFall /\ [][NextFall]_vars /\ WF_vars(FallFrame)

---------------------------------------------------------------------------
(* The weapon of the layout prototypes: R, mousedown, their timers and    *)
(* frames, in any order and any number; no other key is pressed.          *)
AmStart == Start /\ UNCHANGED steps
AmLock == Lock /\ UNCHANGED steps
AmUnlock == Unlock /\ UNCHANGED steps
AmKeyR == KeyDownLayout("KeyR") /\ UNCHANGED steps
AmMouseDown == \E hit \in BOOLEAN : MouseDown(hit) /\ UNCHANGED steps
AmTimer == \E kind \in TimerKinds : Timer(kind) /\ UNCHANGED steps
AmAnimate == \E d \in Deltas : AnimateLayout(d) /\ UNCHANGED steps

NextAmmo ==
  \/ AmStart \/ AmLock \/ AmUnlock
  \/ AmKeyR \/ AmMouseDown \/ AmTimer \/ AmAnimate

SpecAmmo == InitMove /\ [][NextAmmo]_vars

ReserveValues == {TOTAL_AMMO - i * MAG_SIZE : i \in 0 .. (TOTAL_AMMO \div MAG_SIZE)}

(* C11: for any interleaving of R presses, reload timers, shots and      *)
(* frames, gameState.totalAmmo is one of 90, 60, 30, 0: a reload is only *)
(* applied while totalAmmo > 0, so the reserve never goes negative.      *)
C11_ReserveNeverNegative == gameState.totalAmmo \in ReserveValues

(* C15: gameState.ammo is always in 0..30; a mousedown takes exactly 1   *)
(* from ammo when the pointer is locked and ammo > 0, and otherwise      *)
(* leaves ammo and totalAmmo unchanged.                                  *)
C15_MagazineInRange ==
  /\ [](gameState.ammo \in 0 .. MAG_SIZE)
  /\ [][last'.op = "mousedown" =>
         IF isLocked /\ gameState.ammo > 0
         THEN /\ gameState'.ammo = gameState.ammo - 1
              /\ gameState'.totalAmmo = gameState.totalAmmo
         ELSE gameState' = gameState]_vars

(* A mousedown with the pointer locked has met an empty magazine. *)
C15_Witness ==
  /\ Running /\ last.op = "mousedown" /\ isLocked
  /\ gameState.ammo = 0 /\ timers["recoil"] = 0

---------------------------------------------------------------------------
(* The procedural prototype on its own: lock, keys and frames of 0 or     *)
(* ProcDelta ticks, at most ProcFrames frames.                            *)
ProcDelta == 2
ProcFrames == 3
ProcDeltas == {0, ProcDelta}
ProcCodes == {"KeyW", "ArrowRight", "Space"}

ProcTick == steps < ProcFrames /\ steps' = steps + 1
InitProc == Init /\ proto = "proc"

PrStart == Start /\ UNCHANGED steps
PrLock == Lock /\ UNCHANGED steps
PrUnlock == Unlock /\ UNCHANGED steps
PrKeyDown == \E code \in ProcCodes : KeyDownProc(code) /\ UNCHANGED steps
PrKeyUp == \E code \in ProcCodes : KeyUp(code) /\ UNCHANGED steps
PrAnimate == \E d \in ProcDeltas : AnimateProc(d) /\ ProcTick

NextProc ==
  \/ PrStart \/ PrLock \/ PrUnlock
  \/ PrKeyDown \/ PrKeyUp \/ PrAnimate

SpecProc == InitProc /\ [][NextProc]_vars

(* The crate and wall meshes of collidableMeshList, and the column of a mesh: *)
(* the MAP_SCALE-wide square around its position.                             *)
Obstacles == {e \in collidableMeshList : e[2][4] # "floor"}
InColumn(pos, mesh) ==
  /\ 2 * Abs(pos.x - mesh[1] * MAP_SCALE * Q) < MAP_SCALE * Q
  /\ 2 * Abs(pos.z - mesh[3] * MAP_SCALE * Q) < MAP_SCALE * Q

(* C12: in the procedural prototype, after every frame of animate the    *)
(* player's (x, z) is not inside the column of any crate or wall block   *)
(* of collidableMeshList.                                                *)
C12_BlocksStopPlayer ==
  (pc = "run" /\ proto = "proc" /\ last.op = "animate")
    => \A e \in Obstacles : ~InColumn(position, e[2])

(* C13: the jump latch of the procedural prototype: while canJump is     *)
(* true the player is at y = 5 with velocity.y = 0; a keydown either     *)
(* leaves velocity alone and does not set canJump, or finds canJump      *)
(* true, adds JUMP_FORCE to velocity.y and clears canJump; canJump       *)
(* becomes true only in a frame that clamps the player to the floor; no  *)
(* other handler touches velocity or canJump.                            *)
C13_JumpLatch ==
  /\ []((proto = "proc" /\ canJump)
          => (position.y = FLOOR_Y_proc * Q /\ velocity.y = 0))
  /\ [][proto = "proc" =>
         /\ last'.op = "keydown" =>
               \/ velocity' = velocity /\ (canJump' => canJump)
               \/ /\ canJump /\ ~canJump'
                  /\ velocity' = [velocity EXCEPT !.y = @ + JUMP_FORCE_proc * Q]
         /\ (canJump' /\ ~canJump) =>
               /\ last'.op = "animate" /\ last'.landed
               /\ position'.y = FLOOR_Y_proc * Q
         /\ last'.op \notin {"keydown", "animate"} =>
               (velocity' = velocity /\ canJump' = canJump)]_vars

(* After a jump, in mid-air, a keydown that sets no move key (Space) has *)
(* run and has left the rising velocity as it was.                       *)
C13_Witness ==
  /\ proto = "proc" /\ last.op = "keydown" /\ keys = NoKeys
  /\ ~canJump /\ position.y > FLOOR_Y_proc * Q
  /\ velocity.y = JUMP_FORCE_proc * Q - PerTick(GRAVITY_proc) * ProcDelta

(* Offsets of points strictly inside a BLOCK_SIZE-wide square, from its centre. *)
FootprintOffsets ==
  {0 - ((BLOCK_SIZE * Q) \div 2 - 1), 0 - Q, 0, Q, (BLOCK_SIZE * Q) \div 2 - 1}

(* C14: for every crate created by buildMap, checkCollision is true at   *)
(* every point strictly inside the BLOCK_SIZE-wide square centred on the *)
(* crate's mesh position.                                                *)
C14_FootprintMatchesRender ==
  Running =>
    \A c \in createVoxelCalls(proto) :
      \A dx \in FootprintOffsets, dz \in FootprintOffsets :
        checkCollision(solidBlocks, MeshXZ(c)[1] + dx, MeshXZ(c)[2] + dz)

====
